---------------------------- MODULE Spec2Model ----------------------------
(***************************************************************************)
(* Maximum-entropy inverse reinforcement learning notebook                 *)
(* (notebooks/MaxEntIRL.ipynb): value iteration, trajectory sampling,      *)
(* feature / visitation estimation and the two IRL trainers.               *)
(*                                                                         *)
(* The file holds two revisions of the notebook (gym: lines 17-412,        *)
(* gymnasium: lines 413-767); `version` selects the revision a run uses.   *)
(*                                                                         *)
(* Numbers: every float of the program is a fixed-point integer counted in *)
(* units of 1/Scale; a product or quotient is rounded down to a unit.      *)
(* Probabilities below one unit are therefore zero.                       *)
(***************************************************************************)
EXTENDS Integers, Sequences, FiniteSets, TLC

(* ------------------------------ bounds -------------------------------- *)
\* n_steps of every sample_trajectories call (the notebook uses 10 / 20)
MaxSteps == 2
\* n_trajectories of the expert's sample_trajectories call (the notebook
\* uses 100); the batch has up to MaxSteps rows for each
MaxTrajectories == 1
\* largest n_epochs a trainer is called with (the notebook uses 50)
MaxEpochs == 2
\* sweeps after which a value-iteration run is no longer followed
MaxSweeps == 70
\* largest n_steps sample_trajectories is called with on its own
MaxHorizon == 3
\* longest initial_states sample_trajectories is called with on its own
MaxStarts == 2

(* --------------------------- fixed point ------------------------------ *)
Scale == 64 * 3 * 5

FMul(a, b) == (a * b) \div Scale
FDiv(a, b) == (a * Scale) \div b
Abs(x) == IF x < 0 THEN -x ELSE x
\* slip: the running maximum keeps the newest value only
MaxOfLast(a, b) == b

MaxOf(a, b) == IF a >= b THEN a ELSE b

\* the absent value of an optional argument, and an unbound local
None == <<>>
IsNone(x) == DOMAIN x = {}

(* ------------------------------- MDPs --------------------------------- *)
\* env.P[state][action] is a list of (prob, next_state, reward, done)
n_actions == 2
Actions == 0 .. (n_actions - 1)

\* state 0: action 0 -> state 1 (reward 1, terminal); action 1 stays (reward 0)
\* state 1: absorbing, reward 0
TwoStateP ==
    [s \in 0 .. 1 |->
        [a \in Actions |->
            IF s = 0
            THEN IF a = 0 THEN << <<Scale, 1, Scale, TRUE>> >>
                          ELSE << <<Scale, 0, 0, FALSE>> >>
            ELSE << <<Scale, 1, 0, TRUE>> >>]]

\* state 0: action 0 slips (1/2 back to state 0, 1/2 to the goal 1 with
\*          reward 1), action 1 is a self-loop paying 1/8; state 1: absorbing goal
SlipperyP ==
    [s \in 0 .. 1 |->
        [a \in Actions |->
            IF s = 0
            THEN IF a = 0 THEN << <<Scale \div 2, 0, 0, FALSE>>,
                                  <<Scale \div 2, 1, Scale, TRUE>> >>
                          ELSE << <<Scale, 0, Scale \div 8, FALSE>> >>
            ELSE << <<Scale, 1, 0, TRUE>> >>]]

\* state 0: action 0 -> state 1 (terminal flag set), action 1 stays;
\* state 1 is flagged terminal but its table row leads back to state 0
RestartP ==
    [s \in 0 .. 1 |->
        [a \in Actions |->
            IF s = 0
            THEN IF a = 0 THEN << <<Scale, 1, Scale, TRUE>> >>
                          ELSE << <<Scale, 0, 0, FALSE>> >>
            ELSE << <<Scale, 0, 0, FALSE>> >>]]

\* a chain: action 0 moves 0 -> 1 -> 2, the goal (reward 1 on entering it,
\* absorbing); action 1 stays at 0 and falls back from 1 to 0
ChainP ==
    [s \in 0 .. 2 |->
        [a \in Actions |->
            CASE s = 0 /\ a = 0 -> << <<Scale, 1, 0, FALSE>> >>
              [] s = 0 /\ a = 1 -> << <<Scale, 0, 0, FALSE>> >>
              [] s = 1 /\ a = 0 -> << <<Scale, 2, Scale, TRUE>> >>
              [] s = 1 /\ a = 1 -> << <<Scale, 0, 0, FALSE>> >>
              [] OTHER          -> << <<Scale, 2, 0, TRUE>> >>]]

\* the tables the notebook is run on, those the sampler and the estimators
\* are called on, and those the solver is called on
MDPs == {"TwoState", "Slippery"}
SamplerMDPs == MDPs \cup {"Restart"}
SolverMDPs == MDPs \cup {"Restart", "Chain"}

P(m) == CASE m = "TwoState" -> TwoStateP
          [] m = "Slippery" -> SlipperyP
          [] m = "Chain"    -> ChainP
          [] OTHER          -> RestartP

n_states(m) == Cardinality(DOMAIN P(m))
States(m) == 0 .. (n_states(m) - 1)
Zeros(m) == [s \in States(m) |-> 0]

(* ------------------------- ValueIteration ----------------------------- *)
\* slips of the inner loop's term: the native reward left out; the discount
\* left out; the override read at the next state
OutcomeTermNoReward(o, state, V, gamma, reward_function) ==
    LET reward == IF IsNone(reward_function) THEN 0
                  ELSE reward_function[state]
    IN  FMul(o[1], reward + FMul(gamma, V[o[2]]))

OutcomeTermUndiscounted(o, state, V, gamma, reward_function) ==
    LET reward == IF IsNone(reward_function) THEN o[3]
                  ELSE reward_function[state]
    IN  FMul(o[1], reward + V[o[2]])

OutcomeTermNextReward(o, state, V, gamma, reward_function) ==
    LET reward == IF IsNone(reward_function) THEN o[3]
                  ELSE reward_function[o[2]]
    IN  FMul(o[1], reward + FMul(gamma, V[o[2]]))

\* one term of the inner loop: prob * (reward + gamma * V[next_state])
OutcomeTerm(o, state, V, gamma, reward_function) ==
    LET reward == IF IsNone(reward_function) THEN o[3]
                  ELSE reward_function[state]
    IN  FMul(o[1], reward + FMul(gamma, V[o[2]]))

RECURSIVE SumOutcomes(_, _, _, _, _, _)
SumOutcomes(outs, k, state, V, gamma, reward_function) ==
    IF k > Len(outs) THEN 0
    ELSE OutcomeTerm(outs[k], state, V, gamma, reward_function)
         + SumOutcomes(outs, k + 1, state, V, gamma, reward_function)

compute_action_value(m, state, V, gamma, reward_function) ==
    [a \in Actions |->
        SumOutcomes(P(m)[state][a], 1, state, V, gamma, reward_function)]

RowMax(row) == CHOOSE x \in {row[a] : a \in Actions} :
                   \A a \in Actions : row[a] <= x

\* np.exp on a non-positive argument -y: e^(-n) * e^(-f), n whole, f in [0,1)
RECURSIVE ExpFrac(_, _, _)
ExpFrac(f, k, term) ==
    IF k > 8 \/ term = 0 THEN 0
    ELSE LET next == (term * f) \div (Scale * k)
         IN  next - ExpFrac(f, k + 1, next)

RECURSIVE ExpWhole(_, _)
ExpWhole(n, acc) ==
    IF n = 0 \/ acc = 0 THEN acc
    ELSE ExpWhole(n - 1, (acc * 1000) \div 2718)

ExpNeg(y) ==
    LET n == y \div Scale
        f == y % Scale
    IN  IF n > 16 THEN 0 ELSE ExpWhole(n, Scale - ExpFrac(f, 1, Scale))

\* slip: the row is normalised by its largest term instead of its sum
RowSumLargest(row) == MaxOf(row[0], row[1])

RowSum(row) == row[0] + row[1]

compute_softmax_policy(m, V, gamma, beta, reward_function) ==
    [state \in States(m) |->
        LET row == [a \in Actions |->
                      beta * compute_action_value(m, state, V, gamma,
                                                  reward_function)[a]]
            mx  == RowMax(row)
            ex  == [a \in Actions |-> ExpNeg(mx - row[a])]
        IN  [a \in Actions |-> FDiv(ex[a], RowSum(ex))]]

(* ------------------- compute_feature / compute_visitation -------------- *)
RECURSIVE Flatten(_, _)
Flatten(trajs, k) ==
    IF k > Len(trajs) THEN <<>> ELSE trajs[k] \o Flatten(trajs, k + 1)

\* first revision: phi[state] += 1
RECURSIVE CountVisits(_, _, _)
CountVisits(flat, k, phi) ==
    IF k > Len(flat) THEN phi
    ELSE CountVisits(flat, k + 1,
                     [phi EXCEPT ![flat[k]] = phi[flat[k]] + Scale])

\* second revision: phi[state] = 1 + gamma * phi[state]
RECURSIVE DiscountVisits(_, _, _, _)
DiscountVisits(flat, k, phi, g) ==
    IF k > Len(flat) THEN phi
    ELSE DiscountVisits(flat, k + 1,
                        [phi EXCEPT ![flat[k]] = Scale + FMul(g, phi[flat[k]])],
                        g)

\* slip: the recurrence is run with a discount of 0.9
compute_feature_discounted(ver, m, trajs) ==
    LET n_trajectories == Len(trajs)
        zero == Zeros(m)
        phi  == IF ver = 1 THEN CountVisits(Flatten(trajs, 1), 1, zero)
                ELSE DiscountVisits(Flatten(trajs, 1), 1, zero,
                                    (9 * Scale) \div 10)
    IN  [s \in States(m) |-> phi[s] \div n_trajectories]

compute_feature(ver, m, trajs) ==
    LET n_trajectories == Len(trajs)
        zero == Zeros(m)
        phi  == IF ver = 1 THEN CountVisits(Flatten(trajs, 1), 1, zero)
                ELSE DiscountVisits(Flatten(trajs, 1), 1, zero, Scale)
    IN  [s \in States(m) |-> phi[s] \div n_trajectories]

\* what the outcomes of (state, action) add to mu[t][s2]
\* slip: the outcome's probability is left out
RECURSIVE InflowUnweighted(_, _, _, _)
InflowUnweighted(outs, k, s2, w) ==
    IF k > Len(outs) THEN 0
    ELSE (IF outs[k][2] = s2 THEN w ELSE 0)
         + InflowUnweighted(outs, k + 1, s2, w)

RECURSIVE Inflow(_, _, _, _)
Inflow(outs, k, s2, w) ==
    IF k > Len(outs) THEN 0
    ELSE (IF outs[k][2] = s2 THEN FMul(w, outs[k][1]) ELSE 0)
         + Inflow(outs, k + 1, s2, w)

RECURSIVE InflowAll(_, _, _, _, _)
InflowAll(m, policy, mu, s2, idx) ==
    IF idx >= n_states(m) * n_actions THEN 0
    ELSE LET state  == idx \div n_actions
             action == idx % n_actions
         IN  Inflow(P(m)[state][action], 1, s2,
                    FMul(mu[state], policy[state][action]))
             + InflowAll(m, policy, mu, s2, idx + 1)

Propagate(m, policy, mu) ==
    [s2 \in States(m) |-> InflowAll(m, policy, mu, s2, 0)]

InitialOccupancy(m, trajs) ==
    [s \in States(m) |->
        (Scale * Cardinality({k \in 1 .. Len(trajs) : trajs[k][1] = s}))
            \div Len(trajs)]

RECURSIVE SumOccupancy(_, _, _, _, _)
SumOccupancy(m, policy, mu, t, n_steps) ==
    IF t >= n_steps THEN Zeros(m)
    ELSE LET rest == SumOccupancy(m, policy, Propagate(m, policy, mu),
                                  t + 1, n_steps)
         IN  [s \in States(m) |-> mu[s] + rest[s]]

compute_visitation(m, policy, trajs) ==
    SumOccupancy(m, policy, InitialOccupancy(m, trajs), 0, Len(trajs[1]))

(* ------------------------------ state --------------------------------- *)
VARIABLES
    pc,               \* the statement the notebook is at
    mdp,              \* env: which transition table env.P is
    version,          \* 1: gym revision, 2: gymnasium revision
    gamma,            \* discount passed to ValueIteration and the trainer
    beta,             \* inverse temperature
    epslion,          \* tolerance of the sweep loop (1e-5 as the default
                      \* argument, 1e-6 as the second revision's local)
    \* ValueIteration.__call__
    reward_arg,       \* its reward_function argument (None: native rewards)
    V,                \* V
    vi_state,         \* `state` of the sweep's for loop
    delta,            \* delta
    qA,               \* qA of the last compute_action_value in the sweep
    V_error,          \* V_error (second revision)
    sweeps,           \* completed passes of `while True`
    vi_return,        \* where the call returns to
    policy,           \* the policy last returned
    \* sample_trajectories
    n_steps,          \* n_steps
    states,           \* states (the start states)
    k,                \* position of `for state in states`
    state,            \* state
    env_s,            \* env.s
    done,             \* done
    i,                \* i of `for i in range(n_steps)`
    trajectory,       \* trajectory
    trajectories,     \* trajectories (the list, then the returned batch)
    sample_return,    \* where the call returns to
    \* notebook globals
    experts_feature,  \* experts_feature
    \* MaxEntIRL / MaxEntIRLSample
    variant,          \* "exact": MaxEntIRL, "sample": MaxEntIRLSample
    self_trajectories,\* self.trajectories (exact)
    self_initial_states, \* self.initial_states (sample)
    self_shape,       \* <<self.n_trajectories, self.n_steps>> (sample)
    n_epochs,         \* n_epochs
    epoch,            \* i of `for i in range(n_epochs)`
    reward_function,  \* reward_function
    trainer_V,        \* the trainer's local V (None: never assigned)
    learners_feature, \* learners_feature
    grad,             \* grad
    result,           \* what the trainer call returned
    calls             \* the calls and updates the trainer has made, in order

paramVars == <<mdp, version, gamma, beta, epslion>>
viVars == <<reward_arg, V, vi_state, delta, qA, V_error, sweeps, vi_return>>
sampleVars == <<n_steps, states, k, state, env_s, done, i, trajectory,
                trajectories, sample_return>>
trainerVars == <<variant, self_trajectories, self_initial_states, self_shape,
                 n_epochs, epoch, reward_function, trainer_V,
                 learners_feature, grad, result, calls>>
vars == <<pc, paramVars, viVars, policy, sampleVars, experts_feature,
          trainerVars>>

Versions == {1, 2}
Gammas == {(9 * Scale) \div 10, Scale}
Betas == {500}
\* the tolerance as the smallest positive value (one unit), and as a value
\* well above the rounding of a product, as 1e-6 is above a float's
Tolerances == {1, 32}

\* np.random.rand(n_states): the draws followed
RandomValues(m) == {Zeros(m), [s \in States(m) |-> ((s + 1) * Scale) \div 16]}

Init ==
    /\ pc = "expert_vi"
    /\ mdp \in MDPs
    /\ version \in Versions
    /\ gamma \in Gammas
    /\ beta \in Betas
    /\ epslion = 1
    /\ reward_arg = None
    /\ V = None
    /\ vi_state = 0
    /\ delta = 0
    /\ qA = None
    /\ V_error = <<>>
    /\ sweeps = 0
    /\ vi_return = "none"
    /\ policy = None
    /\ n_steps = 0
    /\ states = <<>>
    /\ k = 0
    /\ state = 0
    /\ env_s = 0
    /\ done = FALSE
    /\ i = 0
    /\ trajectory = <<>>
    /\ trajectories = <<>>
    /\ sample_return = "none"
    /\ experts_feature = None
    /\ variant = "none"
    /\ self_trajectories = <<>>
    /\ self_initial_states = <<>>
    /\ self_shape = <<0, 0>>
    /\ n_epochs = 0
    /\ epoch = 0
    /\ reward_function = None
    /\ trainer_V = None
    /\ learners_feature = None
    /\ grad = None
    /\ result = None
    /\ calls = <<>>

(* ------------------------- ValueIteration.__call__ --------------------- *)
\* entry: V = np.zeros(n_states) (first revision), np.random.rand(n_states)
\* (second revision); the while loop starts
InitialV(ver, m) == IF ver = 1 THEN {Zeros(m)} ELSE RandomValues(m)

EnterValueIteration(reward, ret) ==
    /\ reward_arg' = reward
    /\ V' \in InitialV(version, mdp)
    /\ vi_state' = 0
    /\ delta' = 0
    /\ qA' = None
    /\ V_error' = <<>>
    /\ sweeps' = 0
    /\ vi_return' = ret
    /\ pc' = "vi_sweep"

Converged(d, eps) == d < eps

\* the whole call as a function of its inputs: one pass of the for loop from
\* state s on, and the while loop (given up after MaxSweeps passes)
RECURSIVE SweepFrom(_, _, _, _, _, _)
SweepFrom(m, s, v, d, g, reward) ==
    IF s >= n_states(m) THEN <<v, d>>
    ELSE LET max_q == RowMax(compute_action_value(m, s, v, g, reward))
         IN  SweepFrom(m, s + 1, [v EXCEPT ![s] = max_q],
                       MaxOf(d, Abs(max_q - v[s])), g, reward)

RECURSIVE ValueIteration(_, _, _, _, _)
ValueIteration(m, v, g, reward, passes) ==
    LET swept == SweepFrom(m, 0, v, 0, g, reward)
    IN  IF Converged(swept[2], epslion) \/ passes >= MaxSweeps THEN swept[1]
        ELSE ValueIteration(m, swept[1], g, reward, passes + 1)

\* one iteration of `for state in range(n_states)`; after the last state the
\* pass ends: V_error.append(delta), and the loop breaks when delta < epslion
SweepState ==
    /\ pc = "vi_sweep"
    /\ sweeps < MaxSweeps
    /\ LET q     == compute_action_value(mdp, vi_state, V, gamma, reward_arg)
           max_q == RowMax(q)
           d0    == IF vi_state = 0 THEN 0 ELSE delta
           d     == MaxOf(d0, Abs(max_q - V[vi_state]))
           last  == vi_state = n_states(mdp) - 1
       IN  /\ qA' = q
           /\ delta' = d
           /\ V' = [V EXCEPT ![vi_state] = max_q]
           /\ vi_state' = IF last THEN 0 ELSE vi_state + 1
           /\ sweeps' = IF last THEN sweeps + 1 ELSE sweeps
           /\ V_error' = IF last /\ version = 2 THEN Append(V_error, d)
                         ELSE V_error
           /\ pc' = IF last /\ Converged(d, epslion) THEN "vi_policy"
                    ELSE "vi_sweep"
    /\ UNCHANGED <<reward_arg, vi_return, paramVars, policy, sampleVars,
                   experts_feature, trainerVars>>

\* policy = compute_softmax_policy(beta); return V, policy (, V_error);
\* a trainer binds the returned V to its local V; the other locals of the
\* call go with its frame
ReturnPolicy ==
    /\ pc = "vi_policy"
    /\ policy' = compute_softmax_policy(mdp, V, gamma, beta, reward_arg)
    /\ pc' = vi_return
    /\ trainer_V' = IF vi_return = "trainer_feature" THEN V ELSE trainer_V
    /\ calls' = IF vi_return = "trainer_feature"
                THEN Append(calls, "value_iteration") ELSE calls
    /\ reward_arg' = None
    /\ vi_state' = 0
    /\ delta' = 0
    /\ qA' = None
    /\ sweeps' = 0
    /\ vi_return' = "none"
    /\ UNCHANGED <<paramVars, V, V_error, sampleVars, experts_feature, variant,
                   self_trajectories, self_initial_states, self_shape,
                   n_epochs, epoch, reward_function, learners_feature, grad,
                   result>>

(* --------------------------- sample_trajectories ----------------------- *)
\* states = np.random.choice(np.arange(0, n), n_trajectories) when
\* initial_states is None, the given initial_states otherwise
StartStates(m, n_trajectories, initial_states) ==
    IF IsNone(initial_states) THEN [1 .. n_trajectories -> States(m)]
    ELSE {initial_states}

EnterSampleTrajectories(steps, n_trajectories, initial_states, ret) ==
    /\ n_steps' = steps
    /\ states' \in StartStates(mdp, n_trajectories, initial_states)
    /\ trajectories' = <<>>
    /\ k' = 1
    /\ sample_return' = ret
    /\ pc' = "sample_next"
    /\ UNCHANGED <<state, env_s, done, i, trajectory>>

\* `for state in states`: env.reset(); env.s = state; done = False;
\* trajectory = []; when the states are used up, return np.array(trajectories):
\* the call's locals go with its frame, env.s stays as the last step left it
NextTrajectory ==
    /\ pc = "sample_next"
    /\ IF k > Len(states)
       THEN /\ pc' = sample_return
            /\ states' = <<>>
            /\ k' = 0
            /\ state' = 0
            /\ done' = FALSE
            /\ i' = 0
            /\ trajectory' = <<>>
            /\ UNCHANGED env_s
       ELSE /\ state' = states[k]
            /\ env_s' = states[k]
            /\ done' = FALSE
            /\ trajectory' = <<>>
            /\ i' = 0
            /\ k' = k + 1
            /\ pc' = IF n_steps > 0 THEN "sample_step" ELSE "sample_next"
            /\ UNCHANGED states
    /\ UNCHANGED <<n_steps, trajectories, sample_return, paramVars,
                   viVars, policy, experts_feature, trainerVars>>

\* slip: the padding is one state short
PaddingShort(s, steps, len) ==
    [j \in 1 .. (IF steps > len + 1 THEN steps - len - 1 ELSE 0) |-> s]

\* trajectory.extend([state] * (n_steps - len(trajectory)))
Padding(s, steps, len) ==
    [j \in 1 .. (IF steps > len THEN steps - len ELSE 0) |-> s]

\* the rows this rollout has appended so far are one list object with
\* `trajectory`: what is appended or extended to it shows in each of them
Shared(trajs, n, list) ==
    SubSeq(trajs, 1, Len(trajs) - n) \o [j \in 1 .. n |-> list]

\* one iteration of `for i in range(n_steps)`: draw the action from
\* policy[state], record state, step the environment from env.s; on done pad
\* and break, otherwise trajectories.append(trajectory), which is a statement
\* of the loop body: a rollout has appended its list i times when step i runs
RolloutStep ==
    /\ pc = "sample_step"
    /\ \E action \in Actions :
         /\ policy[state][action] > 0
         /\ \E o \in 1 .. Len(P(mdp)[env_s][action]) :
              LET out      == P(mdp)[env_s][action][o]
                  recorded == Append(trajectory, state)
                  list     == IF out[4]
                              THEN recorded
                                   \o Padding(out[2], n_steps, Len(recorded))
                              ELSE recorded
                  shared   == Shared(trajectories, i, list)
              IN  /\ out[1] > 0
                  /\ state' = out[2]
                  /\ env_s' = out[2]
                  /\ done' = out[4]
                  /\ trajectory' = list
                  /\ trajectories' = IF out[4] THEN shared
                                     ELSE Append(shared, list)
                  /\ i' = IF out[4] \/ i + 1 >= n_steps THEN i ELSE i + 1
                  /\ pc' = IF out[4] \/ i + 1 >= n_steps THEN "sample_next"
                           ELSE "sample_step"
    /\ UNCHANGED <<n_steps, states, k, sample_return, paramVars,
                   viVars, policy, experts_feature, trainerVars>>

(* ----------------------------- notebook cells -------------------------- *)
\* V, policy = value_iteration(gamma, beta): the expert, on native rewards
ExpertValueIteration ==
    /\ pc = "expert_vi"
    /\ EnterValueIteration(None, "expert_sample")
    /\ UNCHANGED <<paramVars, policy, sampleVars, experts_feature, trainerVars>>

\* trajectories = sample_trajectories(env, policy)
ExpertSample ==
    /\ pc = "expert_sample"
    /\ EnterSampleTrajectories(MaxSteps, MaxTrajectories, None, "expert_feature")
    /\ UNCHANGED <<paramVars, viVars, policy, experts_feature, trainerVars>>

\* np.array([]) has shape (0,): `n_trajectories, n_steps = trajectories.shape`
\* raises ValueError on a batch without rows
HasShape(trajs) == Len(trajs) > 0

\* experts_feature = compute_feature(n, trajectories)
ExpertFeature ==
    /\ pc = "expert_feature"
    /\ IF HasShape(trajectories)
       THEN /\ experts_feature' = compute_feature(version, mdp, trajectories)
            /\ pc' = "construct"
       ELSE /\ pc' = "raised"
            /\ UNCHANGED experts_feature
    /\ UNCHANGED <<paramVars, viVars, policy, sampleVars, trainerVars>>

(* ------------------------ MaxEntIRL / MaxEntIRLSample ------------------ *)
\* the first revision has both trainers, the second MaxEntIRLSample only
Variants(ver) == IF ver = 1 THEN {"exact", "sample"} ELSE {"sample"}

FirstColumn(trajs) == [j \in 1 .. Len(trajs) |-> trajs[j][1]]

\* __init__; the notebook's own `trajectories` is read by nothing after it
\* and leaves the state here
Construct ==
    /\ pc = "construct"
    /\ variant' \in Variants(version)
    /\ self_trajectories' = IF variant' = "exact" THEN trajectories ELSE <<>>
    /\ self_shape' = IF variant' = "sample"
                     THEN <<Len(trajectories), Len(trajectories[1])>>
                     ELSE <<0, 0>>
    /\ self_initial_states' = IF variant' = "sample"
                              THEN FirstColumn(trajectories) ELSE <<>>
    /\ pc' = "trainer_call"
    /\ trajectories' = <<>>
    /\ UNCHANGED <<paramVars, viVars, policy, n_steps, states, k, state, env_s,
                   done, i, trajectory, sample_return, experts_feature,
                   n_epochs, epoch, reward_function, trainer_V,
                   learners_feature, grad, result, calls>>

\* __call__(policy, n_epochs, gamma): reward_function = np.zeros(n)
TrainerCall ==
    /\ pc = "trainer_call"
    /\ n_epochs' \in 0 .. MaxEpochs
    /\ reward_function' = Zeros(mdp)
    /\ epoch' = 0
    /\ pc' = "trainer_loop"
    /\ UNCHANGED <<paramVars, viVars, policy, sampleVars, experts_feature,
                   variant, self_trajectories, self_initial_states, self_shape,
                   trainer_V, learners_feature, grad, result, calls>>

\* `for i in range(n_epochs)`: whether another epoch starts
AnotherEpoch(e, n, g) == e < n

\* the loop head: V, policy = value_iteration(gamma, beta, reward_function)
EpochValueIteration ==
    /\ pc = "trainer_loop"
    /\ AnotherEpoch(epoch, n_epochs, grad)
    /\ EnterValueIteration(reward_function, "trainer_feature")
    /\ UNCHANGED <<paramVars, policy, sampleVars, experts_feature, trainerVars>>

\* return reward_function, V: reading the local V raises UnboundLocalError
\* when no epoch has assigned it
TrainerReturn ==
    /\ pc = "trainer_loop"
    /\ ~AnotherEpoch(epoch, n_epochs, grad)
    /\ IF IsNone(trainer_V)
       THEN /\ pc' = "raised"
            /\ UNCHANGED result
       ELSE /\ pc' = "returned"
            /\ result' = <<reward_function, trainer_V>>
    /\ UNCHANGED <<paramVars, viVars, policy, sampleVars, experts_feature,
                   variant, self_trajectories, self_initial_states, self_shape,
                   n_epochs, epoch, reward_function, trainer_V,
                   learners_feature, grad, calls>>

\* MaxEntIRL: learners_feature = compute_visitation(env, policy, self.trajectories)
LearnerVisitation ==
    /\ pc = "trainer_feature"
    /\ variant = "exact"
    /\ learners_feature' = compute_visitation(mdp, policy, self_trajectories)
    /\ calls' = Append(calls, "feature")
    /\ pc' = "trainer_grad"
    /\ UNCHANGED <<paramVars, viVars, policy, sampleVars, experts_feature,
                   variant, self_trajectories, self_initial_states, self_shape,
                   n_epochs, epoch, reward_function, trainer_V, grad, result>>

\* the initial_states argument MaxEntIRLSample passes to sample_trajectories
SampleInitialStates(initial_states) == initial_states

\* MaxEntIRLSample: trajectories = sample_trajectories(env, policy,
\*     self.n_steps, self.n_trajectories, self.initial_states)
LearnerSample ==
    /\ pc = "trainer_feature"
    /\ variant = "sample"
    /\ EnterSampleTrajectories(self_shape[2], self_shape[1],
                               SampleInitialStates(self_initial_states),
                               "trainer_count")
    /\ UNCHANGED <<paramVars, viVars, policy, experts_feature, trainerVars>>

\* MaxEntIRLSample: learners_feature = compute_feature(n, trajectories); the
\* epoch's batch is read by nothing after it and leaves the state here
LearnerFeature ==
    /\ pc = "trainer_count"
    /\ IF HasShape(trajectories)
       THEN /\ learners_feature' = compute_feature(version, mdp, trajectories)
            /\ calls' = Append(calls, "feature")
            /\ pc' = "trainer_grad"
       ELSE /\ pc' = "raised"
            /\ UNCHANGED <<learners_feature, calls>>
    /\ trajectories' = <<>>
    /\ UNCHANGED <<paramVars, viVars, policy, n_steps, states, k, state, env_s,
                   done, i, trajectory, sample_return, experts_feature,
                   variant, self_trajectories, self_initial_states, self_shape,
                   n_epochs, epoch, reward_function, trainer_V, grad, result>>

\* slip: the sign of the learner's term
DifferenceSum(m, expert, learner) == [s \in States(m) |-> expert[s] + learner[s]]

\* grad = self.experts_feature - learners_feature
Difference(m, expert, learner) == [s \in States(m) |-> expert[s] - learner[s]]

Gradient ==
    /\ pc = "trainer_grad"
    /\ grad' = Difference(mdp, experts_feature, learners_feature)
    /\ calls' = Append(calls, "grad")
    /\ pc' = "trainer_update"
    /\ UNCHANGED <<paramVars, viVars, policy, sampleVars, experts_feature,
                   variant, self_trajectories, self_initial_states, self_shape,
                   n_epochs, epoch, reward_function, trainer_V,
                   learners_feature, result>>

\* reward_function += learning_rate * grad, with learning_rate = 0.1
learning_rate == Scale \div 10

\* slip: the step is not taken
AscendNothing(m, reward, g) == reward

Ascend(m, reward, g) == [s \in States(m) |-> reward[s] + FMul(learning_rate, g[s])]

Update ==
    /\ pc = "trainer_update"
    /\ reward_function' = Ascend(mdp, reward_function, grad)
    /\ epoch' = epoch + 1
    /\ calls' = Append(calls, "update")
    /\ pc' = "trainer_loop"
    /\ UNCHANGED <<paramVars, viVars, policy, sampleVars, experts_feature,
                   variant, self_trajectories, self_initial_states, self_shape,
                   n_epochs, trainer_V, learners_feature, grad, result>>

(* ---------------------------- specification --------------------------- *)
Next ==
    \/ ExpertValueIteration
    \/ SweepState
    \/ ReturnPolicy
    \/ ExpertSample
    \/ NextTrajectory
    \/ RolloutStep
    \/ ExpertFeature
    \/ Construct
    \/ TrainerCall
    \/ EpochValueIteration
    \/ TrainerReturn
    \/ LearnerVisitation
    \/ LearnerSample
    \/ LearnerFeature
    \/ Gradient
    \/ Update

Spec == Init /\ [][Next]_vars

(* ----------------- sample_trajectories on its own inputs --------------- *)
\* the policies the sampler is called with: every row one-hot or uniform
PolicyRows == {[a \in Actions |-> IF a = 0 THEN Scale ELSE 0],
               [a \in Actions |-> IF a = 1 THEN Scale ELSE 0],
               [a \in Actions |-> Scale \div n_actions]}

StartLists(m) ==
    UNION {[1 .. n -> States(m)] : n \in 1 .. MaxStarts}

\* the state at the entry of sample_trajectories(env, policy, n_steps,
\* n_trajectories, initial_states)
InitSampler ==
    /\ pc = "sample_next"
    /\ mdp \in SamplerMDPs
    /\ version \in Versions
    /\ gamma = Scale
    /\ beta \in Betas
    /\ epslion = 1
    /\ reward_arg = None
    /\ V = None
    /\ vi_state = 0
    /\ delta = 0
    /\ qA = None
    /\ V_error = <<>>
    /\ sweeps = 0
    /\ vi_return = "none"
    /\ policy \in [States(mdp) -> PolicyRows]
    /\ n_steps \in 1 .. MaxHorizon
    /\ states \in StartLists(mdp)
    /\ k = 1
    /\ state = 0
    /\ env_s = 0
    /\ done = FALSE
    /\ i = 0
    /\ trajectory = <<>>
    /\ trajectories = <<>>
    /\ sample_return = "sampled"
    /\ experts_feature = None
    /\ variant = "none"
    /\ self_trajectories = <<>>
    /\ self_initial_states = <<>>
    /\ self_shape = <<0, 0>>
    /\ n_epochs = 0
    /\ epoch = 0
    /\ reward_function = None
    /\ trainer_V = None
    /\ learners_feature = None
    /\ grad = None
    /\ result = None
    /\ calls = <<>>

\* compute_feature(n, trajectories) on the batch that came back
FeatureOfBatch ==
    /\ pc = "sampled"
    /\ IF HasShape(trajectories)
       THEN /\ experts_feature' = compute_feature(version, mdp, trajectories)
            /\ pc' = "counted"
       ELSE /\ pc' = "raised"
            /\ UNCHANGED experts_feature
    /\ UNCHANGED <<paramVars, viVars, policy, sampleVars, trainerVars>>

\* compute_visitation(env, policy, trajectories) on that batch (the first
\* revision has the function)
VisitationOfBatch ==
    /\ pc = "counted"
    /\ version = 1
    /\ learners_feature' = compute_visitation(mdp, policy, trajectories)
    /\ pc' = "propagated"
    /\ UNCHANGED <<paramVars, viVars, policy, sampleVars, experts_feature,
                   variant, self_trajectories, self_initial_states, self_shape,
                   n_epochs, epoch, reward_function, trainer_V, grad, result,
                   calls>>

NextSampler ==
    \/ NextTrajectory
    \/ RolloutStep
    \/ FeatureOfBatch
    \/ VisitationOfBatch

SpecSampler == InitSampler /\ [][NextSampler]_vars

(* ------------------- ValueIteration on its own inputs ------------------ *)
\* the inverse temperatures and the reward vectors (besides None) the solver
\* is called with
SolverBetas == {1, 500}
RewardValues == {-(Scale \div 4), Scale \div 4}

\* the state at the entry of the while loop of
\* ValueIteration(env)(gamma, beta, epslion, reward_function)
InitVI ==
    /\ pc = "vi_sweep"
    /\ mdp \in SolverMDPs
    /\ version \in Versions
    /\ gamma \in Gammas
    /\ beta \in SolverBetas
    /\ epslion \in Tolerances
    /\ reward_arg \in {None} \cup [States(mdp) -> RewardValues]
    /\ V \in InitialV(version, mdp)
    /\ vi_state = 0
    /\ delta = 0
    /\ qA = None
    /\ V_error = <<>>
    /\ sweeps = 0
    /\ vi_return = "solved"
    /\ policy = None
    /\ n_steps = 0
    /\ states = <<>>
    /\ k = 0
    /\ state = 0
    /\ env_s = 0
    /\ done = FALSE
    /\ i = 0
    /\ trajectory = <<>>
    /\ trajectories = <<>>
    /\ sample_return = "none"
    /\ experts_feature = None
    /\ variant = "none"
    /\ self_trajectories = <<>>
    /\ self_initial_states = <<>>
    /\ self_shape = <<0, 0>>
    /\ n_epochs = 0
    /\ epoch = 0
    /\ reward_function = None
    /\ trainer_V = None
    /\ learners_feature = None
    /\ grad = None
    /\ result = None
    /\ calls = <<>>

NextVI ==
    \/ SweepState
    \/ ReturnPolicy

SpecVI == InitVI /\ [][NextVI]_vars

\* the call is one sequential loop: it takes its next step whenever it has one
FairSpecVI == SpecVI /\ WF_vars(NextVI)

(* ------------------------------- claims -------------------------------- *)
Rows(trajs) == {trajs[j] : j \in 1 .. Len(trajs)}

\* C1: sample_trajectories returns a rectangular batch: n_steps columns in
\* every row, and one row per start state, which is n_trajectories rows when
\* the starts are drawn and len(initial_states) rows when they are given,
\* whether or not a rollout ended early.
C1_RectangularBatch ==
    /\ pc \in {"expert_feature", "trainer_count"} =>
          \A row \in Rows(trajectories) : Len(row) = n_steps
    /\ pc = "expert_feature" => Len(trajectories) = MaxTrajectories
    /\ pc = "trainer_count" => Len(trajectories) = Len(self_initial_states)

\* C2: the exact trainer called with n_epochs = 0 returns normally, with the
\* all-zero reward vector and the value function of Value Iteration under the
\* all-zero reward.
C2_ZeroEpochsReturn ==
    (variant = "exact" /\ n_epochs = 0 /\ pc \in {"returned", "raised"})
        => /\ pc = "returned"
           /\ result = <<Zeros(mdp),
                         ValueIteration(mdp, Zeros(mdp), gamma, Zeros(mdp), 1)>>

ExpertSolved(m) ==
    pc = "expert_sample" /\ mdp = m /\ gamma = (9 * Scale) \div 10

\* C3 as stated: on the two-state MDP, with discount 0.9 and native rewards,
\* the returned value function has V[1] >= V[0].
C3_AbsorbingAtLeastStart == ExpertSolved("TwoState") => V[1] >= V[0]

\* C3 as amended: on that MDP the returned value function has V[0] > V[1]
\* (the reward of 1 is earned by leaving state 0, state 1 earns nothing).
C3_StartAboveAbsorbing == ExpertSolved("TwoState") => V[0] > V[1]

C3_Witness == ExpertSolved("TwoState") /\ V[0] = Scale /\ V[1] = 0

\* C4: with a discount below 1 the sweep loop terminates: a call that is
\* sweeping eventually sees delta < epslion and goes on to return.
C4_SweepLoopTerminates ==
    (pc = "vi_sweep" /\ gamma < Scale) ~> (pc = "vi_policy")

\* a call on the stochastic MDP, from a non-zero V, under a learned reward,
\* that broke out of the loop after several passes
C4_Witness ==
    /\ pc = "vi_policy"
    /\ gamma < Scale
    /\ mdp = "Slippery"
    /\ sweeps > 3
    /\ ~IsNone(reward_arg)
    /\ \E s \in States(mdp) : reward_arg[s] # 0

\* C5: a call that has not converged within the passes allowed stops there
\* and reports it, instead of sweeping on.
C5_StopsAtCap == sweeps >= MaxSweeps => pc # "vi_sweep"

RECURSIVE C6_Sum(_, _, _, _, _)
C6_Sum(outs, j, r, v, g) ==
    IF j > Len(outs) THEN 0
    ELSE (outs[j][1] * ((IF IsNone(r) THEN outs[j][3] ELSE r[1])
                        + ((g * v[outs[j][2]]) \div Scale))) \div Scale
         + C6_Sum(outs, j + 1, r, v, g)

\* C6: every action value the sweep computes for state s is the sum, over
\* the outcomes of the action, of prob * (reward + discount * V[next_state]),
\* the reward being reward_function[s] when an override is given (whatever
\* the action, the next state and the native reward) and the outcome's
\* native reward when none is.
C6_ActionValueTerms ==
    [][pc = "vi_sweep" =>
        \A a \in Actions :
            qA'[a] = C6_Sum(P(mdp)[vi_state][a], 1,
                            IF IsNone(reward_arg) THEN None
                            ELSE <<reward_arg[vi_state]>>,
                            V, gamma)]_vars

\* action values of state 0 of the two-state MDP computed under an override
\* that differs from the native reward and from the override at state 1
C6_Witness ==
    /\ pc = "vi_sweep"
    /\ mdp = "TwoState"
    /\ vi_state = 1
    /\ ~IsNone(reward_arg)
    /\ ~IsNone(qA)
    /\ reward_arg[0] # 0
    /\ reward_arg[0] # reward_arg[1]

\* C7: in an epoch (of either trainer) whose learner feature vector equals
\* the expert's, the gradient is the zero vector and the update leaves every
\* entry of the reward vector as it was.
C7_EqualFeaturesNoChange ==
    [][(pc = "trainer_update" /\ learners_feature = experts_feature)
        => /\ \A s \in States(mdp) : grad[s] = 0
           /\ reward_function' = reward_function]_vars

\* the second epoch of a run meets the expert's features with a reward
\* vector that the first epoch has moved
C7_Witness ==
    /\ pc = "trainer_update"
    /\ learners_feature = experts_feature
    /\ \E s \in States(mdp) : experts_feature[s] # 0
    /\ \E s \in States(mdp) : reward_function[s] # 0

EpochCalls == <<"value_iteration", "feature", "grad", "update">>

\* C8: a trainer call with n_epochs = N makes its calls in the order value
\* iteration (under the current reward vector), feature estimation, gradient,
\* update, epoch after epoch, never more than N epochs, and comes back only
\* after exactly N of them, whatever the gradients were.
C8_ExactlyNEpochsInOrder ==
    /\ \A j \in 1 .. Len(calls) : calls[j] = EpochCalls[((j - 1) % 4) + 1]
    /\ Len(calls) <= 4 * n_epochs
    /\ pc \in {"trainer_loop", "returned", "raised"} => Len(calls) = 4 * epoch
    /\ pc \in {"returned", "raised"} => Len(calls) = 4 * n_epochs
    /\ vi_return = "trainer_feature" =>
          /\ reward_arg = reward_function
          /\ Len(calls) = 4 * epoch
    /\ pc = "trainer_feature" => Len(calls) = 4 * epoch + 1
    /\ pc = "trainer_grad" => Len(calls) = 4 * epoch + 2
    /\ pc = "trainer_update" => Len(calls) = 4 * epoch + 3

\* C9: every batch MaxEntIRLSample redraws has as many trajectories and the
\* same horizon as the expert batch it was constructed with, and its
\* trajectories start from that batch's initial states, in order.
C9_RedrawnLikeExpert ==
    [][/\ (pc = "construct" /\ variant' = "sample") =>
             /\ self_shape' = <<Len(trajectories), Len(trajectories[1])>>
             /\ self_initial_states' = FirstColumn(trajectories)
       /\ pc # "construct" =>
             UNCHANGED <<variant, self_shape, self_initial_states>>
       /\ pc' = "trainer_count" =>
             /\ Len(trajectories') = self_shape[1]
             /\ \A j \in 1 .. Len(trajectories') :
                   /\ Len(trajectories'[j]) = self_shape[2]
                   /\ trajectories'[j][1] = self_initial_states[j]]_vars

DeterministicMDP(m) ==
    \A s \in States(m), a \in Actions :
        Len(P(m)[s][a]) = 1 /\ P(m)[s][a][1][1] = Scale

\* every state entered with the terminal flag set only leads to itself
AbsorbingTerminals(m) ==
    \A s \in States(m), a \in Actions :
        \A j \in 1 .. Len(P(m)[s][a]) :
            P(m)[s][a][j][4] =>
                \A b \in Actions :
                    \A l \in 1 .. Len(P(m)[P(m)[s][a][j][2]][b]) :
                        P(m)[P(m)[s][a][j][2]][b][l][2] = P(m)[s][a][j][2]

OneHot(m, pol) ==
    \A s \in States(m) : \E a \in Actions : pol[s][a] = Scale

\* a batch that has the given start states as its first column
StartBatch(starts, steps) ==
    [j \in 1 .. Len(starts) |-> [t \in 1 .. steps |-> starts[j]]]

\* C10: on a deterministic MDP whose terminal states are absorbing, under a
\* one-hot policy and for a given list of initial states, counting the states
\* of the batch sample_trajectories returns gives the feature vector that
\* forward propagation gives for the same policy, initial states and horizon.
C10_CountingMatchesPropagation ==
    (/\ pc = "sample_next"
     /\ k > Len(states)
     /\ DeterministicMDP(mdp)
     /\ AbsorbingTerminals(mdp)
     /\ OneHot(mdp, policy))
        => /\ HasShape(trajectories)
           /\ compute_feature(version, mdp, trajectories)
                 = compute_visitation(mdp, policy, StartBatch(states, n_steps))

\* the rounding a row of n_actions quotients can lose or gain: one unit each
RowTolerance == n_actions

\* C11: every row of a policy table Value Iteration has returned has only
\* non-negative entries, and its entries sum to 1 within the rounding of the
\* quotients, for every state, whatever the MDP, the reward vector, the
\* discount and the inverse temperature were.
C11_PolicyRowsAreDistributions ==
    pc = "solved" =>
        \A s \in States(mdp) :
            /\ \A a \in Actions : policy[s][a] >= 0
            /\ Abs(policy[s][0] + policy[s][1] - Scale) < RowTolerance

\* a returned table with a row that spreads its mass unevenly over both
\* actions (inverse temperature 1, discount 0.9)
C11_Witness ==
    /\ pc = "solved"
    /\ beta = 1
    /\ gamma < Scale
    /\ \E s \in States(mdp) :
          /\ policy[s][0] > 0
          /\ policy[s][1] > 0
          /\ policy[s][0] # policy[s][1]

\* max_a Q(s, a), Q recomputed from the returned V as compute_softmax_policy
\* recomputes it
C12_Residual(s) ==
    Abs(V[s] - RowMax(compute_action_value(mdp, s, V, gamma, reward_arg)))

\* C12: when the sweep loop has broken, V is a Bellman-optimality fixed point
\* within the tolerance: for every state s, |V[s] - max_a Q(s, a)| < epslion
\* with Q recomputed from that V, although the sweep wrote the earlier states
\* before the later ones changed.
C12_FixedPointWithinTolerance ==
    pc = "vi_policy" => \A s \in States(mdp) : C12_Residual(s) < epslion

\* the loop has broken after a pass that still moved V, and an earlier state
\* no longer equals its recomputed maximum
C12_Witness ==
    /\ pc = "vi_policy"
    /\ delta > 0
    /\ \E s \in States(mdp) : C12_Residual(s) > 0

\* C13: a rollout's list begins with its start state, gets at each step the
\* state the environment was in before the transition of that step, and, when
\* the environment reports termination, is filled up to n_steps with the
\* state that transition reached; every row of the batch is the list of one
\* rollout, and has n_steps entries when the rollout is over.
C13_TrajectoryShape ==
    [][pc = "sample_step" =>
        LET pos == Len(trajectory) + 1
        IN  /\ pos = i + 1
            /\ SubSeq(trajectory', 1, pos - 1) = trajectory
            /\ trajectory'[pos] = env_s
            /\ pos = 1 => trajectory'[1] = states[k - 1]
            /\ IF done'
               THEN /\ Len(trajectory') = n_steps
                    /\ \A j \in (pos + 1) .. n_steps : trajectory'[j] = env_s'
               ELSE Len(trajectory') = pos
            /\ Rows(trajectories') \subseteq
                  {r \in Rows(trajectories) : Len(r) = n_steps}
                      \cup {trajectory'}
            /\ pc' = "sample_next" =>
                  \A r \in Rows(trajectories') : Len(r) = n_steps]_vars

\* a returned batch with a rollout that stayed in state 0 for one step, then
\* took the terminating transition to state 1 and was padded with it
C13_Witness ==
    /\ pc = "sampled"
    /\ mdp = "Restart"
    /\ n_steps > 2
    /\ \E r \in Rows(trajectories) :
          r[1] = 0 /\ r[2] = 0 /\ \A j \in 3 .. n_steps : r[j] = 1

\* v is a Value Iteration solution under the reward vector r: one more pass
\* under r moves no state by epslion or more
C14_Solves(v, r) == Converged(SweepFrom(mdp, 0, v, 0, gamma, r)[2], epslion)

\* the reward vector the last epoch's Value Iteration call was given
C14_RewardBeforeLastUpdate ==
    [s \in States(mdp) |-> reward_function[s] - FMul(learning_rate, grad[s])]

\* C14 as stated: for n_epochs >= 1 the trainer returns the reward vector
\* after the last update with the value function of the last Value Iteration
\* call, and that value function is the Value Iteration solution for the
\* returned reward vector.
C14_ReturnedPairConsistent ==
    (pc = "returned" /\ n_epochs >= 1)
        => /\ result = <<reward_function, V>>
           /\ C14_Solves(result[2], result[1])

\* C14 as amended: for n_epochs >= 1 the trainer returns the reward vector
\* after the last update with the value function of the last Value Iteration
\* call, which is the Value Iteration solution for the reward vector before
\* the last update.
C14_ValueOfRewardBeforeLastUpdate ==
    (pc = "returned" /\ n_epochs >= 1)
        => /\ result = <<reward_function, V>>
           /\ C14_Solves(result[2], C14_RewardBeforeLastUpdate)

\* a call has returned a value function that the returned reward vector,
\* moved by the last update, no longer has as its solution
C14_Witness ==
    /\ pc = "returned"
    /\ n_epochs >= 1
    /\ \E s \in States(mdp) : grad[s] # 0
    /\ ~C14_Solves(result[2], result[1])

RECURSIVE C15_Total(_, _)
C15_Total(vec, n) == IF n = 0 THEN 0 ELSE vec[n - 1] + C15_Total(vec, n - 1)

\* mu[t, .] as compute_visitation builds it from the batch
RECURSIVE C15_Mu(_)
C15_Mu(t) ==
    IF t = 0 THEN InitialOccupancy(mdp, trajectories)
    ELSE Propagate(mdp, policy, C15_Mu(t - 1))

RECURSIVE C15_Outcomes(_, _)
C15_Outcomes(m, idx) ==
    IF idx >= n_states(m) * n_actions THEN 0
    ELSE Len(P(m)[idx \div n_actions][idx % n_actions])
         + C15_Outcomes(m, idx + 1)

\* what rounding down can have taken from the mass by time t: less than a
\* unit per state at t = 0, then less than two units (one per product) for
\* every outcome and step
C15_Rounding(t) == n_states(mdp) + 2 * t * C15_Outcomes(mdp, 0)

C15_Starting(s) ==
    Cardinality({j \in 1 .. Len(trajectories) : trajectories[j][1] = s})

C15_PolicyRowsSumToOne ==
    \A s \in States(mdp) : policy[s][0] + policy[s][1] = Scale

RECURSIVE C15_OutcomeProbs(_, _)
C15_OutcomeProbs(outs, j) ==
    IF j > Len(outs) THEN 0 ELSE outs[j][1] + C15_OutcomeProbs(outs, j + 1)

C15_ProbsSumToOne ==
    \A s \in States(mdp), a \in Actions :
        C15_OutcomeProbs(P(mdp)[s][a], 1) = Scale

\* C15: for a batch with rows, a policy whose rows sum to 1 and an MDP whose
\* outcome probabilities sum to 1, compute_visitation conserves mass: at
\* every t below n_steps the entries of mu[t, .] are non-negative and sum to
\* 1 (up to the rounding of the products), mu[0, s] is the fraction of rows
\* that start at s, and the entries of the returned vector sum to n_steps.
C15_MassConserved ==
    (pc = "propagated" /\ C15_PolicyRowsSumToOne /\ C15_ProbsSumToOne) =>
        /\ \A t \in 0 .. (n_steps - 1) :
              /\ \A s \in States(mdp) : C15_Mu(t)[s] >= 0
              /\ C15_Total(C15_Mu(t), n_states(mdp)) <= Scale
              /\ C15_Total(C15_Mu(t), n_states(mdp))
                    >= Scale - C15_Rounding(t)
        /\ \A s \in States(mdp) :
              /\ C15_Mu(0)[s] * Len(trajectories) <= Scale * C15_Starting(s)
              /\ (C15_Mu(0)[s] + 1) * Len(trajectories)
                    > Scale * C15_Starting(s)
        /\ C15_Total(learners_feature, n_states(mdp)) <= n_steps * Scale
        /\ C15_Total(learners_feature, n_states(mdp))
              >= n_steps * Scale - n_steps * C15_Rounding(n_steps - 1)

\* mass propagated for three steps under a policy with a uniform row, from a
\* batch whose rows start in different states
C15_Witness ==
    /\ pc = "propagated"
    /\ mdp = "Restart"
    /\ policy[0][0] = Scale \div n_actions
    /\ n_steps > 2
    /\ C15_Starting(0) > 0
    /\ C15_Starting(0) < Len(trajectories)
    /\ \A s \in States(mdp) : learners_feature[s] > 0

\* the number of entries of the batch that are s
C16_Occurrences(s) ==
    Cardinality({c \in (1 .. Len(trajectories)) \X (1 .. n_steps) :
                    trajectories[c[1]][c[2]] = s})

\* C16: with gamma = 1 the recurrence phi[s] <- 1 + gamma * phi[s] of the
\* second revision returns what the plain count of the first returns: for
\* every state the number of its occurrences in the batch divided by the
\* number of rows, so the entries sum to n_steps (up to the rounding of the
\* quotients).
C16_RecurrenceIsCount ==
    pc = "counted" =>
        /\ \A s \in States(mdp) :
              experts_feature[s]
                = (Scale * C16_Occurrences(s)) \div Len(trajectories)
        /\ compute_feature(1, mdp, trajectories)
              = compute_feature(2, mdp, trajectories)
        /\ C15_Total(experts_feature, n_states(mdp)) <= n_steps * Scale
        /\ C15_Total(experts_feature, n_states(mdp))
              > n_steps * Scale - n_states(mdp)

\* the recurrence has run over a batch of several rows in which a state
\* occurs more often than there are rows
C16_Witness ==
    /\ pc = "counted"
    /\ version = 2
    /\ Len(trajectories) > 1
    /\ \E s \in States(mdp) : C16_Occurrences(s) > Len(trajectories)
    /\ \E s \in States(mdp) : experts_feature[s] > Scale

=============================================================================
